---- MODULE Spec2Model ----
(***************************************************************************)
(* Model of the two command-line tools of image-size-converter:            *)
(*   Tool A  image_shrinker.py               (generate_ios_assets)         *)
(*   Tool B  resize_app_store_screenshots.py (main and its helpers)        *)
(* Strings are sequences of one-character strings, so that parsing,        *)
(* suffix tests and file-name construction are computed, not assumed.      *)
(***************************************************************************)
EXTENDS Integers, Sequences, FiniteSets, TLC

VARIABLES
    \* ---- Tool A: generate_ios_assets ----
    a_pc,       \* position in generate_ios_assets
    a_path,     \* image_path argument
    a_fs,       \* file system: resolved path -> [kind, w, h]
    a_img,      \* img returned by Image.open: [w, h, kind]
    a_res,      \* img_2x / img_1x returned by resize: <<w, h>>
    a_writes    \* files written so far, in order: [path, w, h]

VARIABLES
    \* ---- Tool B layout strategies, applied to one image ----
    l_pc,       \* "start" until a strategy has run, then "done"
    l_im,       \* the source raster handed to the strategy
    l_target,   \* the requested target size <<tw, th>>
    l_mode,     \* the strategy that ran: "pad", "crop" or "stretch"
    l_geo,      \* the strategy's intermediate numbers: [nw, nh, x, y]
    l_out       \* the raster the strategy returned

VARIABLES
    \* ---- Tool B: main ----
    b_pc,       \* position in main
    b_args,     \* parsed command line: [input, sizes, bg, mode, format, landscape]
    b_files,    \* the files on disk: path -> [kind, size, turned]
    b_targets,  \* targets, as parse_sizes returned them
    b_bg,       \* bg, as parse_hex_color returned it
    b_inputs,   \* inputs, as gather_inputs returned them
    b_i,        \* index in inputs of the path the for loop is at
    b_j,        \* index in targets of the target the inner loop is at
    b_outdir,   \* whether ensure_outdir has created the output directory
    b_opened,   \* the paths given to Image.open so far, in order
    b_written,  \* the files save_variant has written so far, in order
    b_err,      \* the lines printed to the error stream so far
    b_exit      \* main's return value, -1 while it has not returned

varsA == <<a_pc, a_path, a_fs, a_img, a_res, a_writes>>
varsL == <<l_pc, l_im, l_target, l_mode, l_geo, l_out>>
varsB == <<b_pc, b_args, b_files, b_targets, b_bg, b_inputs, b_i, b_j, b_outdir,
           b_opened, b_written, b_err, b_exit>>
vars == <<varsA, varsL, varsB>>

\* ------------------------------------------------------------------------
\* Bounds
\* ------------------------------------------------------------------------
\* Largest width/height of a Tool A input image.
MaxDimA == 6

\* ------------------------------------------------------------------------
\* String helpers (Python str / os.path semantics on character sequences)
\* ------------------------------------------------------------------------
Min(a, b) == IF a <= b THEN a ELSE b
Max(a, b) == IF a >= b THEN a ELSE b

\* s.startswith(p)
StartsWith(s, p) == Len(p) <= Len(s) /\ SubSeq(s, 1, Len(p)) = p

\* s.endswith(p)
EndsWith(s, p) == Len(p) <= Len(s) /\ SubSeq(s, Len(s) - Len(p) + 1, Len(s)) = p

\* s.rfind(c) + 1: the 1-based index of the last c in s, 0 when there is none.
RFind(s, c) ==
    LET hits == {i \in 1..Len(s) : s[i] = c}
    IN IF hits = {} THEN 0 ELSE CHOOSE i \in hits : \A j \in hits : j <= i

\* c.lower() for one character.
LowerChar(c) ==
    CASE c = "P" -> "p"
      [] c = "N" -> "n"
      [] c = "G" -> "g"
      [] c = "X" -> "x"
      [] c = "F" -> "f"
      [] OTHER -> c

\* s.lower()
Lower(s) == [i \in 1..Len(s) |-> LowerChar(s[i])]

\* s.replace(p, ""): leftmost, non-overlapping occurrences of p removed.
RECURSIVE RemoveAll(_, _)
RemoveAll(s, p) ==
    IF s = <<>> THEN <<>>
    ELSE IF StartsWith(s, p) THEN RemoveAll(SubSeq(s, Len(p) + 1, Len(s)), p)
    ELSE <<Head(s)>> \o RemoveAll(Tail(s), p)

\* Whether p occurs in s (p in s).
Contains(s, p) == \E i \in 1..(Len(s) - Len(p) + 1) : SubSeq(s, i, i + Len(p) - 1) = p

\* os.path.basename(p): what follows the last "/".
basename(p) == SubSeq(p, RFind(p, "/") + 1, Len(p))

\* s.rstrip("/")
RECURSIVE RStripSlash(_)
RStripSlash(s) ==
    IF s # <<>> /\ s[Len(s)] = "/" THEN RStripSlash(SubSeq(s, 1, Len(s) - 1)) ELSE s

\* os.path.dirname(p): what precedes the last "/", trailing slashes removed
\* unless the head is all slashes.
dirname(p) ==
    LET head == SubSeq(p, 1, RFind(p, "/"))
    IN IF head # <<>> /\ (\E i \in 1..Len(head) : head[i] # "/")
       THEN RStripSlash(head) ELSE head

\* os.path.join(a, b)
join(a, b) ==
    IF StartsWith(b, <<"/">>) THEN b
    ELSE IF a = <<>> \/ a[Len(a)] = "/" THEN a \o b
    ELSE a \o <<"/">> \o b

\* os.path.splitext(p) = <<root, ext>>: the extension starts at the last dot
\* of the last component, unless only dots precede it there.
splitext(p) ==
    LET sepIndex == RFind(p, "/")
        dotIndex == RFind(p, ".")
    IN IF dotIndex > sepIndex
          /\ \E k \in (sepIndex + 1)..(dotIndex - 1) : p[k] # "."
       THEN <<SubSeq(p, 1, dotIndex - 1), SubSeq(p, dotIndex, Len(p))>>
       ELSE <<p, <<>> >>

\* The file a path names: the operating system ignores repeated slashes.
RECURSIVE Resolve(_)
Resolve(p) ==
    IF Len(p) < 2 THEN p
    ELSE IF p[1] = "/" /\ p[2] = "/" THEN Resolve(Tail(p))
    ELSE <<Head(p)>> \o Resolve(Tail(p))

\* ------------------------------------------------------------------------
\* Tool A: image_shrinker.py
\* ------------------------------------------------------------------------
Marker3x == <<"@", "3", "x">>
Marker2x == <<"@", "2", "x">>

\* filename, ext = os.path.splitext(os.path.basename(image_path))
FileNameA(p) == splitext(basename(p))[1]
ExtA(p) == splitext(basename(p))[2]

\* base_name = filename.replace('@3x', '')
BaseNameA(p) == RemoveAll(FileNameA(p), Marker3x)

\* output_dir = os.path.dirname(image_path)
OutputDirA(p) == dirname(p)

\* Mutant of Path1x: the 1x file given a scale suffix of its own.
Path1x_Suffixed(p) ==
    join(dirname(p),
         RemoveAll(splitext(basename(p))[1], <<"@", "3", "x">>)
             \o <<"@", "1", "x">> \o splitext(basename(p))[2])

\* The three output paths.
Path3x(p) == join(OutputDirA(p), BaseNameA(p) \o Marker3x \o ExtA(p))
Path2x(p) == join(OutputDirA(p), BaseNameA(p) \o Marker2x \o ExtA(p))
Path1x(p) == join(OutputDirA(p), BaseNameA(p) \o ExtA(p))

\* Extensions the imaging library can choose an encoder for (it lower-cases
\* the extension of the path given to save).
KnownExt(ext) == Lower(ext) \in {<<".", "p", "n", "g">>, <<".", "j", "p", "g">>}

\* Image.open succeeds on a file that exists and has a readable header.
CanOpen(fs, p) == Resolve(p) \in DOMAIN fs /\ fs[Resolve(p)].kind # "garbage"

\* img.save(path) succeeds when the pixel data decodes and the extension of
\* path names a format; both are decided before the file is created.
CanSave(img, p) == img.kind = "image" /\ KnownExt(splitext(p)[2])

\* img.resize(size) refuses a size with a side below one pixel.
CanResize(size) == size[1] >= 1 /\ size[2] >= 1

\* Mutant of Size2x: the 2/3 scale taken before the floor division.
Size2x_MulFirst(img) == <<(img.w * 2) \div 3, (img.h * 2) \div 3>>

\* (img.width // 3 * 2, img.height // 3 * 2)
Size2x(img) == <<(img.w \div 3) * 2, (img.h \div 3) * 2>>

\* (img.width // 3, img.height // 3)
Size1x(img) == <<img.w \div 3, img.h \div 3>>

\* The file system after an image of the given size is saved at path p.
WriteFile(fs, p, w, h) ==
    [q \in DOMAIN fs \cup {Resolve(p)} |->
        IF q = Resolve(p) THEN [kind |-> "image", w |-> w, h |-> h] ELSE fs[q]]

PathsA == {
    <<"a", ".", "p", "n", "g">>,
    <<"a", "@", "3", "x", ".", "p", "n", "g">>,
    <<"d", "/", "a", ".", "P", "N", "G">>,
    <<"d", "/", "/", "a", ".", "p", "n", "g">>,
    <<"a", "@", "@", "3", "x", "3", "x", ".", "j", "p", "g">>,
    <<"a", ".", "@", "3", "x">>,
    <<".", "p", "n", "g">> }

\* What the input file can hold: a decodable image, an image whose header
\* reads but whose pixel data is cut short, or bytes that are no image.
ContentsA ==
    [kind : {"image", "truncated"}, w : 1..MaxDimA, h : 1..MaxDimA]
    \cup {[kind |-> "garbage", w |-> 0, h |-> 0]}

NoImg == [kind |-> "none", w |-> 0, h |-> 0]

IdleA ==
    /\ a_pc = "idle"
    /\ a_path = <<>>
    /\ a_fs = <<>>
    /\ a_img = NoImg
    /\ a_res = <<0, 0>>
    /\ a_writes = <<>>

InitA ==
    /\ a_pc = "start"
    /\ a_path \in PathsA
    /\ \/ a_fs = <<>>                                      \* input missing
       \/ \E c \in ContentsA : a_fs = (Resolve(a_path) :> c)
    /\ a_img = NoImg
    /\ a_res = <<0, 0>>
    /\ a_writes = <<>>

\* line 6: img = Image.open(image_path)
A_Open ==
    /\ a_pc = "start"
    /\ IF CanOpen(a_fs, a_path)
       THEN /\ a_img' = a_fs[Resolve(a_path)]
            /\ a_pc' = "opened"
       ELSE /\ a_img' = a_img
            /\ a_pc' = "failed"
    /\ UNCHANGED <<a_path, a_fs, a_res, a_writes>>

\* line 16: img.save(<base_name>@3x<ext>)
A_Save3x ==
    /\ a_pc = "opened"
    /\ IF CanSave(a_img, Path3x(a_path))
       THEN /\ a_fs' = WriteFile(a_fs, Path3x(a_path), a_img.w, a_img.h)
            /\ a_writes' = Append(a_writes,
                   [path |-> Path3x(a_path), w |-> a_img.w, h |-> a_img.h])
            /\ a_pc' = "saved3x"
       ELSE /\ UNCHANGED <<a_fs, a_writes>>
            /\ a_pc' = "failed"
    /\ UNCHANGED <<a_path, a_img, a_res>>

\* line 19: img_2x = img.resize((img.width // 3 * 2, img.height // 3 * 2))
A_Resize2x ==
    /\ a_pc = "saved3x"
    /\ IF CanResize(Size2x(a_img))
       THEN /\ a_res' = Size2x(a_img)
            /\ a_pc' = "resized2x"
       ELSE /\ a_res' = a_res
            /\ a_pc' = "failed"
    /\ UNCHANGED <<a_path, a_fs, a_img, a_writes>>

\* line 20: img_2x.save(<base_name>@2x<ext>)
A_Save2x ==
    /\ a_pc = "resized2x"
    /\ a_fs' = WriteFile(a_fs, Path2x(a_path), a_res[1], a_res[2])
    /\ a_writes' = Append(a_writes,
           [path |-> Path2x(a_path), w |-> a_res[1], h |-> a_res[2]])
    /\ a_pc' = "saved2x"
    /\ UNCHANGED <<a_path, a_img, a_res>>

\* line 23: img_1x = img.resize((img.width // 3, img.height // 3))
A_Resize1x ==
    /\ a_pc = "saved2x"
    /\ IF CanResize(Size1x(a_img))
       THEN /\ a_res' = Size1x(a_img)
            /\ a_pc' = "resized1x"
       ELSE /\ a_res' = a_res
            /\ a_pc' = "failed"
    /\ UNCHANGED <<a_path, a_fs, a_img, a_writes>>

\* line 24: img_1x.save(<base_name><ext>)
A_Save1x ==
    /\ a_pc = "resized1x"
    /\ a_fs' = WriteFile(a_fs, Path1x(a_path), a_res[1], a_res[2])
    /\ a_writes' = Append(a_writes,
           [path |-> Path1x(a_path), w |-> a_res[1], h |-> a_res[2]])
    /\ a_pc' = "done"
    /\ UNCHANGED <<a_path, a_img, a_res>>

NextA ==
    \/ A_Open /\ UNCHANGED <<varsL, varsB>>
    \/ A_Save3x /\ UNCHANGED <<varsL, varsB>>
    \/ A_Resize2x /\ UNCHANGED <<varsL, varsB>>
    \/ A_Save2x /\ UNCHANGED <<varsL, varsB>>
    \/ A_Resize1x /\ UNCHANGED <<varsL, varsB>>
    \/ A_Save1x /\ UNCHANGED <<varsL, varsB>>

\* ------------------------------------------------------------------------
\* Tool B: the layout strategies (resize_app_store_screenshots.py 54-100)
\* ------------------------------------------------------------------------
\* Largest width/height of a source image or a target in the layout runs.
MaxDimL == 5

\* A raster: its size and, for every pixel, where the pixel's value comes from
\* ("src": the source image, "bg": the background colour, "void": neither).
Pixels(size) == (0..(size[1] - 1)) \X (0..(size[2] - 1))
Raster(size, v) == [size |-> size, pix |-> [p \in Pixels(size) |-> v]]

\* A decoded source image: its stored size and whether its EXIF orientation
\* asks for a quarter turn.
SourceImage(size, turned) == [size |-> size, turned |-> turned]

\* ImageOps.exif_transpose(im).size: a quarter-turn orientation swaps the sides.
ExifSize(im) == IF im.turned THEN <<im.size[2], im.size[1]>> ELSE im.size

\* im.resize(size, LANCZOS): every pixel is resampled from the source.
Resize(size) == Raster(size, "src")

\* Image.new("RGB", size, bg)
NewCanvas(size) == Raster(size, "bg")

\* canvas.paste(img, (x, y)): img covers the canvas from (x, y), clipped.
Paste(canvas, img, x, y) ==
    [canvas EXCEPT !.pix =
        [p \in Pixels(canvas.size) |->
            IF <<p[1] - x, p[2] - y>> \in Pixels(img.size)
            THEN img.pix[<<p[1] - x, p[2] - y>>]
            ELSE canvas.pix[p]]]

\* img.crop((x, y, x2, y2)): the box's size; pixels of the box outside img
\* are not taken from img.
Crop(img, x, y, x2, y2) ==
    [size |-> <<x2 - x, y2 - y>>,
     pix |-> [p \in Pixels(<<x2 - x, y2 - y>>) |->
                IF <<p[1] + x, p[2] + y>> \in Pixels(img.size)
                THEN img.pix[<<p[1] + x, p[2] + y>>]
                ELSE "void"]]

\* int(round(o * scale)) with scale = num/den.  Where o*num/den lies exactly
\* half way between two integers the float product may fall on either side,
\* so both neighbours are possible; elsewhere the nearest integer.
RoundSet(n, d) ==
    LET q == n \div d
        r == n % d
    IN IF 2 * r < d THEN {q}
       ELSE IF 2 * r > d THEN {q + 1}
       ELSE {q, q + 1}

\* Mutant of FitScale: the larger of the two ratios.
FitScale_Max(o, t) ==
    IF t[1] * o[2] >= t[2] * o[1] THEN <<t[1], o[1]>> ELSE <<t[2], o[2]>>

\* Mutant of CoverScale: the smaller of the two ratios.
CoverScale_Min(o, t) ==
    IF t[1] * o[2] <= t[2] * o[1] THEN <<t[1], o[1]>> ELSE <<t[2], o[2]>>

\* scale = min(tw / ow, th / oh), as <<numerator, denominator>>
FitScale(o, t) ==
    IF t[1] * o[2] <= t[2] * o[1] THEN <<t[1], o[1]>> ELSE <<t[2], o[2]>>

\* scale = max(tw / ow, th / oh), as <<numerator, denominator>>
CoverScale(o, t) ==
    IF t[1] * o[2] >= t[2] * o[1] THEN <<t[1], o[1]>> ELSE <<t[2], o[2]>>

\* The sizes (nw, nh) = (max(1, int(round(ow*scale))), max(1, int(round(oh*scale))))
\* can take.
ScaledSizes(o, scale) ==
    {<<Max(1, w), Max(1, h)>> :
        w \in RoundSet(o[1] * scale[1], scale[2]),
        h \in RoundSet(o[2] * scale[1], scale[2])}

\* fit_and_pad, lines 62-76, for a resized size n chosen in ScaledSizes.
PadGeo(t, n) ==
    [nw |-> n[1], nh |-> n[2], x |-> (t[1] - n[1]) \div 2, y |-> (t[2] - n[2]) \div 2]

\* Mutant of fit_and_pad: the resized image returned without the canvas.
fit_and_pad_NoCanvas(t, n) == Resize(n)

fit_and_pad(t, n) ==
    Paste(NewCanvas(t), Resize(n), PadGeo(t, n).x, PadGeo(t, n).y)

\* cover_and_crop, lines 84-92, for a resized size n chosen in ScaledSizes.
CropGeo(t, n) ==
    [nw |-> n[1], nh |-> n[2], x |-> (n[1] - t[1]) \div 2, y |-> (n[2] - t[2]) \div 2]

cover_and_crop(t, n) ==
    Crop(Resize(n), CropGeo(t, n).x, CropGeo(t, n).y,
         CropGeo(t, n).x + t[1], CropGeo(t, n).y + t[2])

\* stretch_resize, line 100
stretch_resize(t) == Resize(t)

NoGeo == [nw |-> 0, nh |-> 0, x |-> 0, y |-> 0]

IdleL ==
    /\ l_pc = "idle"
    /\ l_im = SourceImage(<<1, 1>>, FALSE)
    /\ l_target = <<1, 1>>
    /\ l_mode = "none"
    /\ l_geo = NoGeo
    /\ l_out = Raster(<<0, 0>>, "void")

InitL ==
    /\ l_pc = "start"
    /\ \E w, h \in 1..MaxDimL, turned \in BOOLEAN :
           l_im = SourceImage(<<w, h>>, turned)
    /\ l_target \in (1..MaxDimL) \X (1..MaxDimL)
    /\ l_mode = "none"
    /\ l_geo = NoGeo
    /\ l_out = Raster(<<0, 0>>, "void")

L_FitAndPad ==
    /\ l_pc = "start"
    /\ \E n \in ScaledSizes(ExifSize(l_im), FitScale(ExifSize(l_im), l_target)) :
          /\ l_geo' = PadGeo(l_target, n)
          /\ l_out' = fit_and_pad(l_target, n)
    /\ l_mode' = "pad"
    /\ l_pc' = "done"
    /\ UNCHANGED <<l_im, l_target>>

L_CoverAndCrop ==
    /\ l_pc = "start"
    /\ \E n \in ScaledSizes(ExifSize(l_im), CoverScale(ExifSize(l_im), l_target)) :
          /\ l_geo' = CropGeo(l_target, n)
          /\ l_out' = cover_and_crop(l_target, n)
    /\ l_mode' = "crop"
    /\ l_pc' = "done"
    /\ UNCHANGED <<l_im, l_target>>

L_StretchResize ==
    /\ l_pc = "start"
    /\ l_geo' = NoGeo
    /\ l_out' = stretch_resize(l_target)
    /\ l_mode' = "stretch"
    /\ l_pc' = "done"
    /\ UNCHANGED <<l_im, l_target>>

NextL ==
    \/ L_FitAndPad /\ UNCHANGED <<varsA, varsB>>
    \/ L_CoverAndCrop /\ UNCHANGED <<varsA, varsB>>
    \/ L_StretchResize /\ UNCHANGED <<varsA, varsB>>

\* ------------------------------------------------------------------------
\* Tool B: argument parsing (resize_app_store_screenshots.py 33-52)
\* ------------------------------------------------------------------------
\* s.lstrip(chars) and s.rstrip(chars) for a set of characters.
RECURSIVE LStrip(_, _)
LStrip(s, cs) == IF s # <<>> /\ Head(s) \in cs THEN LStrip(Tail(s), cs) ELSE s

RECURSIVE RStrip(_, _)
RStrip(s, cs) ==
    IF s # <<>> /\ s[Len(s)] \in cs THEN RStrip(SubSeq(s, 1, Len(s) - 1), cs) ELSE s

\* s.strip(): white space removed at both ends.
Strip(s) == RStrip(LStrip(s, {" "}), {" "})

\* The 1-based index of the first c in s, 0 when there is none.
Find(s, c) ==
    LET hits == {i \in 1..Len(s) : s[i] = c}
    IN IF hits = {} THEN 0 ELSE CHOOSE i \in hits : \A j \in hits : i <= j

\* s.split(c): the pieces between the occurrences of c.
RECURSIVE Split(_, _)
Split(s, c) ==
    IF Find(s, c) = 0 THEN <<s>>
    ELSE <<SubSeq(s, 1, Find(s, c) - 1)>> \o Split(SubSeq(s, Find(s, c) + 1, Len(s)), c)

\* The value of a digit character in the given base, -1 when it is none.
DigitValue(c, base) ==
    LET v == CASE c = "0" -> 0 [] c = "1" -> 1 [] c = "2" -> 2 [] c = "3" -> 3
               [] c = "4" -> 4 [] c = "5" -> 5 [] c = "6" -> 6 [] c = "7" -> 7
               [] c = "8" -> 8 [] c = "9" -> 9 [] c = "a" -> 10 [] c = "b" -> 11
               [] c = "c" -> 12 [] c = "d" -> 13 [] c = "e" -> 14 [] c = "f" -> 15
               [] c = "F" -> 15 [] OTHER -> -1
    IN IF v < base THEN v ELSE -1

\* The value of a string of digits and underscores (underscores skipped).
RECURSIVE DigitsValue(_, _, _)
DigitsValue(s, base, acc) ==
    IF s = <<>> THEN acc
    ELSE IF Head(s) = "_" THEN DigitsValue(Tail(s), base, acc)
    ELSE DigitsValue(Tail(s), base, acc * base + DigitValue(Head(s), base))

\* int(s, base) of Python: surrounding white space is dropped, one sign is
\* allowed, then digits, where single underscores may separate digits.
\* [ok |-> FALSE] stands for ValueError.  (A "0x" prefix, which base 16 also
\* allows, needs a digit after it and so never fits the two-character pieces
\* parse_hex_color converts; base 10 allows none.)
ParseInt(s, base) ==
    LET t == Strip(s)
        signed == t # <<>> /\ Head(t) \in {"+", "-"}
        body == IF signed THEN Tail(t) ELSE t
        wellFormed ==
            /\ body # <<>>
            /\ body[1] # "_" /\ body[Len(body)] # "_"
            /\ \A i \in 1..Len(body) :
                  \/ DigitValue(body[i], base) >= 0
                  \/ body[i] = "_" /\ i < Len(body) /\ body[i + 1] # "_"
        mag == DigitsValue(body, base, 0)
    IN IF wellFormed
       THEN [ok |-> TRUE, val |-> IF signed /\ Head(t) = "-" THEN -mag ELSE mag]
       ELSE [ok |-> FALSE, val |-> 0]

\* One token of parse_sizes (lines 36-40): <<w, h>>, or ValueError.
ParseSizeToken(tok) ==
    LET token == Lower(Strip(tok))
        at == Find(token, "x")
        w == ParseInt(SubSeq(token, 1, at - 1), 10)
        h == ParseInt(SubSeq(token, at + 1, Len(token)), 10)
    IN IF at = 0 THEN [ok |-> FALSE, size |-> <<0, 0>>]
       ELSE IF ~w.ok \/ ~h.ok THEN [ok |-> FALSE, size |-> <<0, 0>>]
       ELSE [ok |-> TRUE, size |-> <<w.val, h.val>>]

\* parse_sizes(s): the list of sizes, or ValueError at the first bad token.
parse_sizes(s) ==
    LET toks == Split(s, ",")
        parsed == [i \in 1..Len(toks) |-> ParseSizeToken(toks[i])]
    IN IF \A i \in 1..Len(toks) : parsed[i].ok
       THEN [ok |-> TRUE, sizes |-> [i \in 1..Len(toks) |-> parsed[i].size]]
       ELSE [ok |-> FALSE, sizes |-> <<>>]

\* "".join(c*2 for c in s)
Doubled(s) == [i \in 1..(2 * Len(s)) |-> s[(i + 1) \div 2]]

\* parse_hex_color(s): (r, g, b), or ValueError.
parse_hex_color(str) ==
    LET s == LStrip(Strip(str), {"#"})
        t == IF Len(s) = 3 THEN Doubled(s) ELSE s
        r == ParseInt(SubSeq(t, 1, 2), 16)
        g == ParseInt(SubSeq(t, 3, 4), 16)
        b == ParseInt(SubSeq(t, 5, 6), 16)
    IN IF Len(s) \notin {6, 3} THEN [ok |-> FALSE, rgb |-> <<0, 0, 0>>]
       ELSE IF ~r.ok \/ ~g.ok \/ ~b.ok THEN [ok |-> FALSE, rgb |-> <<0, 0, 0>>]
       ELSE [ok |-> TRUE, rgb |-> <<r.val, g.val, b.val>>]

\* str(n) for an integer.
RECURSIVE NatToStr(_)
NatToStr(n) ==
    LET d == <<"0", "1", "2", "3", "4", "5", "6", "7", "8", "9">>[(n % 10) + 1]
    IN IF n < 10 THEN <<d>> ELSE NatToStr(n \div 10) \o <<d>>
IntToStr(n) == IF n < 0 THEN <<"-">> \o NatToStr(-n) ELSE NatToStr(n)

\* ------------------------------------------------------------------------
\* Tool B: the batch driver (resize_app_store_screenshots.py 102-186)
\* ------------------------------------------------------------------------
\* The directories on disk: the names of the files and of the directories
\* each holds.
DirTree ==
    (<<"s">> :> [files |-> {<<"a", ".", "p", "n", "g">>, <<"n", ".", "t", "x", "t">>},
                 dirs |-> {<<"t">>}])
    @@ (<<"s", "/", "t">> :> [files |-> {<<"a", ".", "P", "N", "G">>}, dirs |-> {}])
    @@ (<<"e">> :> [files |-> {<<"n", ".", "t", "x", "t">>}, dirs |-> {}])

F_sa == <<"s", "/", "a", ".", "p", "n", "g">>
F_sn == <<"s", "/", "n", ".", "t", "x", "t">>
F_sta == <<"s", "/", "t", "/", "a", ".", "P", "N", "G">>
F_en == <<"e", "/", "n", ".", "t", "x", "t">>
F_b == <<"b", ".", "j", "p", "g">>
F_n == <<"n", ".", "t", "x", "t">>
F_missing == <<"m", ".", "p", "n", "g">>

\* What a file can hold: "image" decodes, "truncated" opens but fails to
\* decode, "garbage" is no image at all.
FileContent(kind, size, turned) == [kind |-> kind, size |-> size, turned |-> turned]
NotAnImage == FileContent("garbage", <<0, 0>>, FALSE)

FilesOnDisk ==
    {(F_sa :> FileContent(ka, <<2, 3>>, FALSE))
        @@ (F_sta :> FileContent(kt, <<3, 2>>, TRUE))
        @@ (F_b :> FileContent(kb, <<1, 4>>, FALSE))
        @@ (F_sn :> NotAnImage) @@ (F_en :> NotAnImage) @@ (F_n :> NotAnImage) :
     ka \in {"image", "truncated", "garbage"},
     kt \in {"image", "garbage"},
     kb \in {"image", "truncated"}}

\* --input values.
InputArgs == {
    <<<<"s">>>>,
    <<<<"e">>>>,
    <<F_n>>,
    <<F_b, <<"s">>>>,
    <<F_sa, F_sta>>,
    <<F_missing, F_b>>,
    <<F_sn, F_b, F_b>> }

\* --sizes values.
SizesArgs == {
    <<"2", "x", "3">>,
    <<" ", "2", "X", "2", " ", ",", "3", "x", "2">>,
    <<"3", "x", "2", ",", "-", "2", "x", "3">>,
    <<"2", "x", "3", ",">>,
    <<"2", "3">>,
    <<"2", "x", "3", "x", "4">> }

\* --bg values.
BgArgs == {
    <<"#", "0", "0", "0">>,
    <<"0", "F", "0", "f", "0", "f">>,
    <<"#", "+", "f", "+", "f", "+", "f">>,
    <<"#", "g", "g", "g">>,
    <<"#", "f", "f">> }

\* --outdir value.
OutDir == <<"o">>

\* os.path.isdir(p)
isdir(p) == Resolve(p) \in DOMAIN DirTree

\* Mutant of HasImageSuffix: the suffix compared without lower-casing.
HasImageSuffix_CaseSensitive(f) ==
    \E e \in {<<".", "p", "n", "g">>, <<".", "j", "p", "g">>, <<".", "j", "p", "e", "g">>,
              <<".", "h", "e", "i", "c">>, <<".", "w", "e", "b", "p">>} : EndsWith(f, e)

\* f.lower().endswith((".png", ".jpg", ".jpeg", ".heic", ".webp"))
ImageSuffixes == {
    <<".", "p", "n", "g">>, <<".", "j", "p", "g">>, <<".", "j", "p", "e", "g">>,
    <<".", "h", "e", "i", "c">>, <<".", "w", "e", "b", "p">> }
HasImageSuffix(f) == \E e \in ImageSuffixes : EndsWith(Lower(f), e)

\* The orders in which a directory listing can come.
RECURSIVE Orderings(_)
Orderings(S) ==
    IF S = {} THEN {<<>>}
    ELSE UNION {{<<x>> \o r : r \in Orderings(S \ {x})} : x \in S}

\* os.walk(root), lines 109-112: the files of root that pass the suffix
\* test, then those of each directory below it, joined to their directory.
RECURSIVE WalkSeqs(_)
RECURSIVE SubWalks(_, _)
WalkSeqs(root) ==
    LET here == {join(root, f) :
                    f \in {g \in DirTree[Resolve(root)].files : HasImageSuffix(g)}}
    IN {a \o b : a \in Orderings(here),
                 b \in SubWalks(root, DirTree[Resolve(root)].dirs)}
SubWalks(root, ds) ==
    IF ds = {} THEN {<<>>}
    ELSE UNION {{a \o b : a \in WalkSeqs(join(root, d)),
                          b \in SubWalks(root, ds \ {d})} : d \in ds}

\* gather_inputs(paths): the lists it can return.
RECURSIVE gather_inputs(_)
gather_inputs(paths) ==
    IF paths = <<>> THEN {<<>>}
    ELSE {a \o b : a \in (IF isdir(Head(paths)) THEN WalkSeqs(Head(paths))
                          ELSE {<<Head(paths)>>}),
                   b \in gather_inputs(Tail(paths))}

\* save_variant, lines 118-121: the path the variant is saved at.
SavePath(outdir, base, size, fmt, suffix) ==
    join(outdir,
         splitext(basename(base))[1] \o <<"_">> \o IntToStr(size[1]) \o <<"x">>
            \o IntToStr(size[2]) \o suffix \o <<".">> \o Lower(fmt))

LandscapeSuffix == <<"_", "l", "a", "n", "d", "s", "c", "a", "p", "e">>

\* out_im.rotate(90, expand=True): a quarter turn.
Rotate90(img) ==
    [size |-> <<img.size[2], img.size[1]>>,
     pix |-> [p \in Pixels(<<img.size[2], img.size[1]>>) |->
                img.pix[<<img.size[1] - 1 - p[2], p[1]>>]]]

\* Image.open(path) succeeds on a file that exists and is an image.
CanOpenB(files, p) == Resolve(p) \in DOMAIN files /\ files[Resolve(p)].kind # "garbage"

\* The rasters the selected strategy can return for image im and target t
\* (lines 169-174); none when the library raises: the pixel data does not
\* decode, or the target has a side below one pixel.
LayoutResults(mode, im, t) ==
    IF im.kind # "image" \/ t[1] < 1 \/ t[2] < 1 THEN {}
    ELSE IF mode = "pad"
         THEN {fit_and_pad(t, n) : n \in ScaledSizes(ExifSize(im), FitScale(ExifSize(im), t))}
    ELSE IF mode = "crop"
         THEN {cover_and_crop(t, n) :
                  n \in ScaledSizes(ExifSize(im), CoverScale(ExifSize(im), t))}
    ELSE {stretch_resize(t)}

\* One line of the "Wrote ..." record: the file, the raster's size, and the
\* input, target and orientation it was made for.
Written(path, img, i, src, t, orient) ==
    [path |-> path, size |-> img.size, i |-> i, src |-> src, target |-> t,
     orient |-> orient]

IdleB ==
    /\ b_pc = "idle"
    /\ b_args = [input |-> <<>>, sizes |-> <<>>, bg |-> <<>>, mode |-> "pad",
                 format |-> <<>>, landscape |-> FALSE]
    /\ b_files = <<>>
    /\ b_targets = <<>>
    /\ b_bg = <<0, 0, 0>>
    /\ b_inputs = <<>>
    /\ b_i = 0
    /\ b_j = 0
    /\ b_outdir = FALSE
    /\ b_opened = <<>>
    /\ b_written = <<>>
    /\ b_err = <<>>
    /\ b_exit = -1

\* main after parser.parse_args (line 144).
InitB ==
    /\ b_pc = "parse_sizes"
    /\ b_args \in [input : InputArgs, sizes : SizesArgs, bg : BgArgs,
                   mode : {"pad", "crop", "stretch"},
                   format : {<<"p", "n", "g">>, <<"j", "p", "g">>},
                   landscape : BOOLEAN]
    /\ b_files \in FilesOnDisk
    /\ b_targets = <<>>
    /\ b_bg = <<0, 0, 0>>
    /\ b_inputs = <<>>
    /\ b_i = 0
    /\ b_j = 0
    /\ b_outdir = FALSE
    /\ b_opened = <<>>
    /\ b_written = <<>>
    /\ b_err = <<>>
    /\ b_exit = -1

\* lines 146-150
B_ParseSizes ==
    /\ b_pc = "parse_sizes"
    /\ IF parse_sizes(b_args.sizes).ok
       THEN /\ b_targets' = parse_sizes(b_args.sizes).sizes
            /\ b_pc' = "parse_bg"
            /\ UNCHANGED <<b_err, b_exit>>
       ELSE /\ b_err' = Append(b_err, [what |-> "sizes", path |-> <<>>])
            /\ b_exit' = 2
            /\ b_pc' = "done"
            /\ UNCHANGED b_targets
    /\ UNCHANGED <<b_args, b_files, b_bg, b_inputs, b_i, b_j, b_outdir, b_opened,
                   b_written>>

\* lines 152-156
B_ParseBg ==
    /\ b_pc = "parse_bg"
    /\ IF parse_hex_color(b_args.bg).ok
       THEN /\ b_bg' = parse_hex_color(b_args.bg).rgb
            /\ b_pc' = "gather"
            /\ UNCHANGED <<b_err, b_exit>>
       ELSE /\ b_err' = Append(b_err, [what |-> "bg", path |-> <<>>])
            /\ b_exit' = 2
            /\ b_pc' = "done"
            /\ UNCHANGED b_bg
    /\ UNCHANGED <<b_args, b_files, b_targets, b_inputs, b_i, b_j, b_outdir,
                   b_opened, b_written>>

\* lines 158-161
B_Gather ==
    /\ b_pc = "gather"
    /\ \E found \in gather_inputs(b_args.input) :
          /\ b_inputs' = found
          /\ IF found = <<>>
             THEN /\ b_err' = Append(b_err, [what |-> "noinput", path |-> <<>>])
                  /\ b_exit' = 2
                  /\ b_pc' = "done"
             ELSE /\ b_pc' = "mkdir"
                  /\ UNCHANGED <<b_err, b_exit>>
    /\ UNCHANGED <<b_args, b_files, b_targets, b_bg, b_i, b_j, b_outdir, b_opened,
                   b_written>>

\* line 163
B_EnsureOutdir ==
    /\ b_pc = "mkdir"
    /\ b_outdir' = TRUE
    /\ b_i' = 1
    /\ b_pc' = "loop"
    /\ UNCHANGED <<b_args, b_files, b_targets, b_bg, b_inputs, b_j, b_opened,
                   b_written, b_err, b_exit>>

\* Mutant of B_Open: a failure to open is not caught and ends main.
B_Open_Uncaught ==
    /\ b_pc = "loop"
    /\ b_i <= Len(b_inputs)
    /\ b_opened' = Append(b_opened, b_inputs[b_i])
    /\ IF Resolve(b_inputs[b_i]) \in DOMAIN b_files
          /\ b_files[Resolve(b_inputs[b_i])].kind # "garbage"
       THEN /\ b_j' = 1
            /\ b_pc' = "body"
            /\ UNCHANGED <<b_i, b_err, b_exit>>
       ELSE /\ b_err' = Append(b_err, [what |-> "failed", path |-> b_inputs[b_i]])
            /\ b_exit' = 1
            /\ b_pc' = "done"
            /\ UNCHANGED <<b_i, b_j>>
    /\ UNCHANGED <<b_args, b_files, b_targets, b_bg, b_inputs, b_outdir, b_written>>

\* lines 165-167: the next path is opened; a failure is caught at line 183
\* and the loop goes on to the path after it.
B_Open ==
    /\ b_pc = "loop"
    /\ b_i <= Len(b_inputs)
    /\ b_opened' = Append(b_opened, b_inputs[b_i])
    /\ IF CanOpenB(b_files, b_inputs[b_i])
       THEN /\ b_j' = 1
            /\ b_pc' = "body"
            /\ UNCHANGED <<b_i, b_err>>
       ELSE /\ b_err' = Append(b_err, [what |-> "failed", path |-> b_inputs[b_i]])
            /\ b_i' = b_i + 1
            /\ UNCHANGED <<b_j, b_pc>>
    /\ UNCHANGED <<b_args, b_files, b_targets, b_bg, b_inputs, b_outdir, b_written,
                   b_exit>>

\* lines 168-182: one target: the strategy, save_variant, and with
\* --landscape the rotated variant; a failure is caught at line 183.
B_Target ==
    /\ b_pc = "body"
    /\ b_j <= Len(b_targets)
    /\ LET path == b_inputs[b_i]
           t == b_targets[b_j]
           outs == LayoutResults(b_args.mode, b_files[Resolve(path)], t)
       IN IF outs = {}
          THEN /\ b_err' = Append(b_err, [what |-> "failed", path |-> path])
               /\ b_i' = b_i + 1
               /\ b_pc' = "loop"
               /\ UNCHANGED <<b_j, b_written>>
          ELSE /\ \E out_im \in outs :
                     b_written' =
                        b_written
                        \o <<Written(SavePath(OutDir, path, t, b_args.format, <<>>),
                                     out_im, b_i, path, t, "portrait")>>
                        \o (IF b_args.landscape
                            THEN <<Written(SavePath(OutDir, path, <<t[2], t[1]>>,
                                                    b_args.format, LandscapeSuffix),
                                           Rotate90(out_im), b_i, path, t, "landscape")>>
                            ELSE <<>>)
               /\ b_j' = b_j + 1
               /\ UNCHANGED <<b_i, b_pc, b_err>>
    /\ UNCHANGED <<b_args, b_files, b_targets, b_bg, b_inputs, b_outdir, b_opened,
                   b_exit>>

\* line 167: the with block ends after the last target; the loop moves on.
B_Close ==
    /\ b_pc = "body"
    /\ b_j > Len(b_targets)
    /\ b_i' = b_i + 1
    /\ b_pc' = "loop"
    /\ UNCHANGED <<b_args, b_files, b_targets, b_bg, b_inputs, b_j, b_outdir,
                   b_opened, b_written, b_err, b_exit>>

\* line 186
B_Return0 ==
    /\ b_pc = "loop"
    /\ b_i > Len(b_inputs)
    /\ b_exit' = 0
    /\ b_pc' = "done"
    /\ UNCHANGED <<b_args, b_files, b_targets, b_bg, b_inputs, b_i, b_j, b_outdir,
                   b_opened, b_written, b_err>>

NextB ==
    \/ B_ParseSizes /\ UNCHANGED <<varsA, varsL>>
    \/ B_ParseBg /\ UNCHANGED <<varsA, varsL>>
    \/ B_Gather /\ UNCHANGED <<varsA, varsL>>
    \/ B_EnsureOutdir /\ UNCHANGED <<varsA, varsL>>
    \/ B_Open /\ UNCHANGED <<varsA, varsL>>
    \/ B_Target /\ UNCHANGED <<varsA, varsL>>
    \/ B_Close /\ UNCHANGED <<varsA, varsL>>
    \/ B_Return0 /\ UNCHANGED <<varsA, varsL>>

\* ------------------------------------------------------------------------
\* Specifications
\* ------------------------------------------------------------------------
StartA == InitA /\ IdleL /\ IdleB
StartL == InitL /\ IdleA /\ IdleB
StartB == InitB /\ IdleA /\ IdleL

SpecA == StartA /\ [][NextA]_vars
SpecLayout == StartL /\ [][NextL]_vars
SpecB == StartB /\ [][NextB]_vars

\* ------------------------------------------------------------------------
\* Claims about Tool A (checked under SpecA)
\* ------------------------------------------------------------------------
\* The width and height of the image as it was opened.
InW == a_img.w
InH == a_img.h
NoMarkerInName == ~Contains(FileNameA(a_path), Marker3x)
FileIs(p, w, h) ==
    /\ Resolve(p) \in DOMAIN a_fs
    /\ a_fs[Resolve(p)] = [kind |-> "image", w |-> w, h |-> h]

\* C5: every run of generate_ios_assets that ends in failure has written none
\* of the three output files.
C5_FailureLeavesNoOutput ==
    a_pc = "failed" => a_writes = <<>>

\* Supplement to C5: a run whose input is missing or is no decodable image
\* fails, and has written nothing.
MissingOrCorruptInputLeavesNoOutput ==
    (Resolve(a_path) \notin DOMAIN a_fs \/ a_fs[Resolve(a_path)].kind # "image")
        => (a_pc \in {"start", "opened", "failed"} /\ a_writes = <<>>)

\* C6: the n-th file written has the size the claim gives it: the input's
\* (W, H) for @3x, (floor(W/3)*2, floor(H/3)*2) for @2x, (floor(W/3),
\* floor(H/3)) for 1x; and after a completed run the three files hold them.
C6_OutputDimensions ==
    /\ Len(a_writes) >= 1 =>
          (a_writes[1].w = InW /\ a_writes[1].h = InH)
    /\ Len(a_writes) >= 2 =>
          (a_writes[2].w = (InW \div 3) * 2 /\ a_writes[2].h = (InH \div 3) * 2)
    /\ Len(a_writes) >= 3 =>
          (a_writes[3].w = InW \div 3 /\ a_writes[3].h = InH \div 3)
    /\ a_pc = "done" =>
          /\ Len(a_writes) = 3
          /\ FileIs(a_writes[1].path, InW, InH)
          /\ FileIs(a_writes[2].path, (InW \div 3) * 2, (InH \div 3) * 2)
          /\ FileIs(a_writes[3].path, InW \div 3, InH \div 3)

\* A completed run on an input where floor(W/3)*2 differs from floor(2W/3).
C6_Witness ==
    a_pc = "done" /\ InW = 5 /\ InH = 4

\* C10: without an "@3x" in the input's file name the 1x path names the input
\* file, and the last write of a completed run leaves the 1/3-scale image
\* there; the writes go to the @3x, @2x and 1x paths in that order; and the
\* three paths name pairwise distinct files.
C10_OneXReplacesSource ==
    /\ a_pc # "idle" =>
        /\ NoMarkerInName => Resolve(Path1x(a_path)) = Resolve(a_path)
        /\ Resolve(Path3x(a_path)) # Resolve(Path2x(a_path))
        /\ Resolve(Path3x(a_path)) # Resolve(Path1x(a_path))
        /\ Resolve(Path2x(a_path)) # Resolve(Path1x(a_path))
        /\ Len(a_writes) <= 3
        /\ \A i \in 1..Len(a_writes) :
              a_writes[i].path = <<Path3x(a_path), Path2x(a_path), Path1x(a_path)>>[i]
    /\ (a_pc = "done" /\ NoMarkerInName) =>
        /\ Resolve(a_writes[Len(a_writes)].path) = Resolve(a_path)
        /\ FileIs(a_path, InW \div 3, InH \div 3)

\* A completed run on an input without the marker, given with a doubled slash.
C10_Witness ==
    /\ a_pc = "done"
    /\ NoMarkerInName
    /\ Contains(a_path, <<"/", "/">>)
    /\ Len(a_writes) = 3

\* ------------------------------------------------------------------------
\* Claims about the layout strategies (checked under SpecLayout)
\* ------------------------------------------------------------------------
SrcSize == ExifSize(l_im)
AspectsDiffer == SrcSize[1] * l_target[2] # SrcSize[2] * l_target[1]
InPasted(p) ==
    /\ l_geo.x <= p[1] /\ p[1] < l_geo.x + l_geo.nw
    /\ l_geo.y <= p[2] /\ p[2] < l_geo.y + l_geo.nh
Abs(n) == IF n < 0 THEN -n ELSE n

\* C1: whichever strategy ran, on whatever source and target, the raster it
\* returned has exactly the target's width and height.
C1_ExactTargetSize ==
    l_pc = "done" =>
        /\ l_out.size = l_target
        /\ DOMAIN l_out.pix = Pixels(l_target)

\* Pad mode has run on a source whose aspect ratio differs from the target's,
\* so that the resized image alone is narrower than the target.
C1_Witness ==
    /\ l_pc = "done"
    /\ l_mode = "pad"
    /\ AspectsDiffer
    /\ l_geo.nw < l_target[1]

\* C8: in pad mode the resized size fits the target on both axes, the paste
\* offsets are not negative, the margins before and after the content differ
\* by at most one pixel on each axis, the content lies inside the canvas,
\* and every pixel outside the pasted rectangle is background.
C8_PadCentredInsideCanvas ==
    (l_pc = "done" /\ l_mode = "pad") =>
        /\ l_geo.nw <= l_target[1]
        /\ l_geo.nh <= l_target[2]
        /\ l_geo.x = (l_target[1] - l_geo.nw) \div 2
        /\ l_geo.y = (l_target[2] - l_geo.nh) \div 2
        /\ l_geo.x >= 0
        /\ l_geo.y >= 0
        /\ Abs((l_target[1] - l_geo.nw - l_geo.x) - l_geo.x) <= 1
        /\ Abs((l_target[2] - l_geo.nh - l_geo.y) - l_geo.y) <= 1
        /\ \A p \in Pixels(l_target) :
              l_out.pix[p] = IF InPasted(p) THEN "src" ELSE "bg"
        /\ Cardinality({p \in Pixels(l_target) : l_out.pix[p] = "src"})
              = l_geo.nw * l_geo.nh

\* Pad mode with margins on the vertical axis that differ by one pixel.
C8_Witness ==
    /\ l_pc = "done"
    /\ l_mode = "pad"
    /\ (l_target[2] - l_geo.nh) % 2 = 1
    /\ l_geo.y >= 1

\* C9: in crop mode the resized size covers the target on both axes, so the
\* crop window lies inside the resized image and every output pixel comes
\* from the source.
C9_CropWindowInsideResized ==
    (l_pc = "done" /\ l_mode = "crop") =>
        /\ l_geo.nw >= l_target[1]
        /\ l_geo.nh >= l_target[2]
        /\ l_geo.x = (l_geo.nw - l_target[1]) \div 2
        /\ l_geo.y = (l_geo.nh - l_target[2]) \div 2
        /\ l_geo.x >= 0
        /\ l_geo.y >= 0
        /\ l_geo.x + l_target[1] <= l_geo.nw
        /\ l_geo.y + l_target[2] <= l_geo.nh
        /\ \A p \in Pixels(l_target) : l_out.pix[p] = "src"

\* Crop mode where the resized image overflows the target and is trimmed.
C9_Witness ==
    /\ l_pc = "done"
    /\ l_mode = "crop"
    /\ l_geo.nh > l_target[2]
    /\ l_geo.y >= 1

\* ------------------------------------------------------------------------
\* Claims about Tool B's batch driver (checked under SpecB)
\* ------------------------------------------------------------------------
Gathered == b_pc \in {"mkdir", "loop", "body", "done"} /\ b_exit # 2
Range(q) == {q[k] : k \in 1..Len(q)}

\* An input fails when it does not open, does not decode, or some target has
\* a side below one pixel.
InputFails(p) ==
    \/ Resolve(p) \notin DOMAIN b_files
    \/ b_files[Resolve(p)].kind # "image"
    \/ \E j \in 1..Len(b_targets) : b_targets[j][1] < 1 \/ b_targets[j][2] < 1

\* The inputs among the first n that fail, in list order.
RECURSIVE FailingAmong(_)
FailingAmong(n) ==
    IF n = 0 THEN <<>>
    ELSE FailingAmong(n - 1)
            \o (IF InputFails(b_inputs[n]) THEN <<b_inputs[n]>> ELSE <<>>)

\* The paths the "Failed on ..." lines name, in the order printed.
FailedLog == [k \in 1..Len(b_err) |-> b_err[k].path]

\* The number of inputs the for loop is through with.
InputsFinished == IF b_pc = "body" THEN b_i - 1 ELSE Max(b_i - 1, 0)

\* C2: the paths opened are always the first so many of the input list, in
\* order and once each; every failure among the inputs finished is logged,
\* and nothing else is; main, once past the setup, returns 0 having opened
\* every input; and every input that does not fail has then, for every
\* target, its output written (and its landscape output with --landscape).
C2_BatchSurvivesFailures ==
    Gathered =>
        /\ Len(b_opened) <= Len(b_inputs)
        /\ \A k \in 1..Len(b_opened) : b_opened[k] = b_inputs[k]
        /\ Len(b_opened) = (IF b_pc = "body" THEN b_i ELSE Max(b_i - 1, 0))
        /\ FailedLog = FailingAmong(InputsFinished)
        /\ \A k \in 1..Len(b_err) : b_err[k].what = "failed"
        /\ b_pc = "done" =>
            /\ b_exit = 0
            /\ b_opened = b_inputs
            /\ \A k \in 1..Len(b_inputs) : \A j \in 1..Len(b_targets) :
                  ~InputFails(b_inputs[k]) =>
                     /\ \E m \in 1..Len(b_written) :
                           /\ b_written[m].i = k
                           /\ b_written[m].target = b_targets[j]
                           /\ b_written[m].orient = "portrait"
                           /\ b_written[m].size = b_targets[j]
                     /\ b_args.landscape =>
                           \E m \in 1..Len(b_written) :
                              /\ b_written[m].i = k
                              /\ b_written[m].target = b_targets[j]
                              /\ b_written[m].orient = "landscape"
                              /\ b_written[m].size = <<b_targets[j][2], b_targets[j][1]>>

\* main has returned 0 after an input that failed was followed by one that
\* did not, whose output is written.
C2_Witness ==
    /\ b_pc = "done"
    /\ b_exit = 0
    /\ Len(b_inputs) >= 2
    /\ InputFails(b_inputs[1])
    /\ ~InputFails(b_inputs[2])
    /\ \E m \in 1..Len(b_written) : b_written[m].i = 2
    /\ Len(b_err) = 1

\* What the documented argument syntax admits: a size token is digits, "x",
\* digits (case and outer white space aside); a colour is three or six
\* hexadecimal digits after the "#".
IsDigits(q, base) == q # <<>> /\ \A k \in 1..Len(q) : DigitValue(q[k], base) >= 0
SizeTokenSyntax(tok) ==
    LET t == Lower(Strip(tok))
    IN \E at \in 1..Len(t) :
          /\ t[at] = "x"
          /\ IsDigits(SubSeq(t, 1, at - 1), 10)
          /\ IsDigits(SubSeq(t, at + 1, Len(t)), 10)
SizesSyntax(q) == \A k \in 1..Len(Split(q, ",")) : SizeTokenSyntax(Split(q, ",")[k])
ColorSyntax(q) ==
    LET t == LStrip(Strip(q), {"#"})
    IN Len(t) \in {3, 6} /\ IsDigits(t, 16)
NoInputsResolved == \A found \in gather_inputs(b_args.input) : found = <<>>

\* C3: when --sizes holds a malformed token, --bg is a malformed colour or no
\* input is found, main returns 2, and has then neither created the output
\* directory, nor opened an input, nor written a file.
C3_BadArgumentsExitTwo ==
    (b_pc = "done"
        /\ (~SizesSyntax(b_args.sizes) \/ ~ColorSyntax(b_args.bg) \/ NoInputsResolved))
    => (b_exit = 2 /\ ~b_outdir /\ b_opened = <<>> /\ b_written = <<>>)

\* Supplement to C3: whenever main returns 2 nothing has been processed, and
\* it returns 2 whenever a parser raised or no input was found.
ExitTwoBeforeProcessing ==
    /\ b_exit = 2 => (b_pc = "done" /\ ~b_outdir /\ b_opened = <<>> /\ b_written = <<>>)
    /\ (b_pc = "done"
          /\ (~parse_sizes(b_args.sizes).ok \/ ~parse_hex_color(b_args.bg).ok
                \/ NoInputsResolved))
       => b_exit = 2

\* C4: two files written for different (source path, target, orientation)
\* tuples never have the same path.
C4_OutputPathsUnique ==
    \A m, n \in 1..Len(b_written) :
        <<b_written[m].src, b_written[m].target, b_written[m].orient>>
            # <<b_written[n].src, b_written[n].target, b_written[n].orient>>
        => Resolve(b_written[m].path) # Resolve(b_written[n].path)

\* The claim's suffix test, stated on its own: the file name ends, case
\* aside, in one of the five suffixes.
EndsInImageSuffix(p) ==
    LET f == Lower(basename(p))
    IN \E e \in {<<".", "p", "n", "g">>, <<".", "j", "p", "g">>,
                 <<".", "j", "p", "e", "g">>, <<".", "h", "e", "i", "c">>,
                 <<".", "w", "e", "b", "p">>} :
          Len(f) >= Len(e) /\ SubSeq(f, Len(f) - Len(e) + 1, Len(f)) = e

\* The files on disk below directory d.
FilesBelow(d) ==
    UNION {{join(dir, f) : f \in DirTree[dir].files} :
              dir \in {x \in DOMAIN DirTree : x = d \/ StartsWith(x, d \o <<"/">>)}}
DirArgs == {d \in Range(b_args.input) : Resolve(d) \in DOMAIN DirTree}
FileArgs == Range(b_args.input) \ DirArgs

\* C7 as claimed: every path that is processed ends in an image suffix.
C7_ProcessedHaveImageSuffix ==
    \A k \in 1..Len(b_opened) : EndsInImageSuffix(b_opened[k])

\* C7 as amended: the gathered list holds the path arguments that are no
\* directories, unfiltered, and of the files below a directory argument
\* exactly those that end in an image suffix; only gathered paths are opened.
C7_WalkedFilesFiltered ==
    Gathered =>
        /\ \A p \in Range(b_inputs) :
              \/ p \in FileArgs
              \/ \E d \in DirArgs : p \in FilesBelow(d) /\ EndsInImageSuffix(p)
        /\ \A p \in FileArgs : p \in Range(b_inputs)
        /\ \A d \in DirArgs : \A p \in FilesBelow(d) :
              /\ EndsInImageSuffix(p) => p \in Range(b_inputs)
              /\ (~EndsInImageSuffix(p) /\ p \notin FileArgs) => p \notin Range(b_inputs)
        /\ Range(b_opened) \subseteq Range(b_inputs)

\* A directory was walked: its upper-case .PNG was opened, its .txt was not
\* gathered.
C7_Witness ==
    /\ b_pc = "done"
    /\ b_exit = 0
    /\ <<"s">> \in DirArgs
    /\ F_sta \in Range(b_opened)
    /\ F_sa \in Range(b_opened)
    /\ F_sn \notin Range(b_inputs)

====
